---- MODULE Spec2Model ----
(***************************************************************************)
(* Model of simple_project_tracker: the SQLite store (projects, employees, *)
(* project_status), its row-level operations, and the aggregation          *)
(* functions computed from the stored log rows.                            *)
(*                                                                         *)
(* Time is counted in whole hours since 2024-01-01T00:00 (a Monday); a     *)
(* date is a day number since 2024-01-01.  The ISO text the code stores    *)
(* for a datetime is the pair <<day, hour>>, for a date the tuple <<day>>. *)
(***************************************************************************)
EXTENDS Integers, Sequences, FiniteSets, TLC

\* ------------------------------------------------------------ bounds
\* At most MaxLogs rows are ever inserted into project_status.
MaxLogs == 3
\* At most MaxEmployeeRows rows are ever inserted into employees.
MaxEmployeeRows == 2

\* ------------------------------------------------------------ inputs
ProjectNames == {"Site Migration", "Intranet"}
\* Employee names in ascending text order (ORDER BY name ASC).
EmployeeOrder == <<"Alice", "Bob">>
EmployeeNames == {EmployeeOrder[i] : i \in 1..Len(EmployeeOrder)}
\* The options of the status select.
StatusOptions ==
    <<"Blocked", "At Risk", "Off Track", "Not Started", "In Progress", "Canceled", "Done">>
Statuses == {StatusOptions[i] : i \in 1..Len(StatusOptions)}
\* Projected end dates a user picks: 2024-01-08 and 2024-01-15.
Dates == {7, 14}
\* The browser sessions that have the projects page open.
Sessions == {"s1", "s2"}
\* The wall-clock readings at which operations run: 2024-01-01T09:00 (a Monday),
\* 2024-01-03T09:00 and 2024-01-10T09:00.  The first is the reading at start-up.
Instants == <<9, 57, 225>>

VARIABLES
    projects,         \* table projects: rows [id, name]
    employees,        \* table employees: rows [id, name]
    project_status,   \* table project_status: rows [id, employee, project_id, status, commit_time, projected_end_date]
    sqlite_sequence,  \* AUTOINCREMENT counter of each table
    now,              \* the wall clock, in hours
    last,             \* the operation performed last: [op, arg, raised]
    ui                \* each session's page: [pc, new_project_input, project_table, notify, escaped,
                      \*   project_options, log_args]

vars == <<projects, employees, project_status, sqlite_sequence, now, last, ui>>
tables == <<projects, employees, project_status, sqlite_sequence>>

\* ------------------------------------------------------------ ISO text
\* datetime.isoformat(): "YYYY-MM-DDTHH:.." as <<day, hour>>.
isoformat(t) == <<t \div 24, t % 24>>
\* datetime.fromisoformat()
fromisoformat(s) == s[1] * 24 + s[2]
\* date.isoformat(): "YYYY-MM-DD" as <<day>>.
date_isoformat(d) == <<d>>
\* date.fromisoformat()
date_fromisoformat(s) == s[1]
\* Text comparison of two stored commit_time values (ORDER BY commit_time).
TextLess(a, b) == a[1] < b[1] \/ (a[1] = b[1] /\ a[2] < b[2])
\* datetime.combine(date, time.min)
combine_min(d) == d * 24

\* ------------------------------------------------------------ storage accessor
\* The state of ui.notify before a handler has notified.
NoNotification == [message |-> "", color |-> ""]

Init ==
    /\ projects = {}
    /\ employees = {}
    /\ project_status = {}
    /\ sqlite_sequence = [projects |-> 0, employees |-> 0, project_status |-> 0]
    /\ now = Instants[1]
    /\ last = [op |-> "init_db", arg |-> <<>>, raised |-> "none"]
    /\ ui = [s \in Sessions |->
               [pc |-> "idle",
                new_project_input |-> "",
                project_table |-> {},
                notify |-> NoNotification,
                escaped |-> "none",
                project_options |-> {},
                log_args |-> <<>>]]

\* Variant: the column is not declared UNIQUE.
violates_unique_never(table, name) == FALSE

\* name TEXT NOT NULL UNIQUE: the insert of a name the table holds is refused.
violates_unique(table, name) == \E row \in table : row.name = name

\* Variant: INTEGER PRIMARY KEY without AUTOINCREMENT, one more than the largest id stored.
next_id_rowid(table_name) ==
    LET ids == {row.id : row \in (IF table_name = "projects" THEN projects
                                  ELSE IF table_name = "employees" THEN employees
                                  ELSE project_status)}
    IN  IF ids = {} THEN 1 ELSE (CHOOSE x \in ids : \A y \in ids : x >= y) + 1

\* INTEGER PRIMARY KEY AUTOINCREMENT: one more than the largest id ever used.
next_id(table_name) == sqlite_sequence[table_name] + 1

\* CREATE TABLE IF NOT EXISTS ... for the three tables, which exist since start-up.
init_db ==
    /\ UNCHANGED <<tables, now>>
    /\ last' = [op |-> "init_db", arg |-> <<>>, raised |-> "none"]

\* INSERT INTO projects(name) VALUES (?)
add_project(project_name) ==
    IF violates_unique(projects, project_name)
    THEN /\ UNCHANGED <<tables, now>>
         /\ last' = [op |-> "add_project", arg |-> project_name, raised |-> "IntegrityError"]
    ELSE /\ projects' = projects \cup {[id |-> next_id("projects"), name |-> project_name]}
         /\ sqlite_sequence' = [sqlite_sequence EXCEPT !.projects = next_id("projects")]
         /\ UNCHANGED <<employees, project_status, now>>
         /\ last' = [op |-> "add_project", arg |-> project_name, raised |-> "none"]

\* SELECT id, name FROM projects (no defined order: the set of rows)
fetch_projects == projects

\* SELECT id FROM projects WHERE name = ?; -1 when there is none.
get_project_id(project_name) ==
    IF \E p \in projects : p.name = project_name
    THEN (CHOOSE p \in projects : p.name = project_name).id
    ELSE -1

\* Variant: the subquery does not filter on status = 'Done'.
fetch_not_done_projects_unlogged ==
    {p \in projects : p.id \notin {r.project_id : r \in project_status}}

\* SELECT id, name FROM projects WHERE id NOT IN
\*   (SELECT project_id FROM project_status WHERE status = 'Done')
fetch_not_done_projects ==
    {p \in projects :
        p.id \notin {r.project_id : r \in {x \in project_status : x.status = "Done"}}}

\* INSERT INTO project_status(...) VALUES (employee, project_id, status, now, date)
add_log(employee, project_id, status, projected_end_date) ==
    /\ project_status' = project_status \cup
          {[id |-> next_id("project_status"),
            employee |-> employee,
            project_id |-> project_id,
            status |-> status,
            commit_time |-> isoformat(now),
            projected_end_date |-> date_isoformat(projected_end_date)]}
    /\ sqlite_sequence' = [sqlite_sequence EXCEPT !.project_status = next_id("project_status")]
    /\ UNCHANGED <<projects, employees, now>>
    /\ last' = [op |-> "add_log", arg |-> next_id("project_status"), raised |-> "none"]

\* Variant: DELETE ... WHERE id <= ?
delete_log_upto(log_id) ==
    /\ project_status' = {r \in project_status : r.id > log_id}
    /\ UNCHANGED <<projects, employees, sqlite_sequence, now>>
    /\ last' = [op |-> "delete_log", arg |-> log_id, raised |-> "none"]

\* DELETE FROM project_status WHERE id = ?
delete_log(log_id) ==
    /\ project_status' = {r \in project_status : r.id # log_id}
    /\ UNCHANGED <<projects, employees, sqlite_sequence, now>>
    /\ last' = [op |-> "delete_log", arg |-> log_id, raised |-> "none"]

\* INSERT INTO employees(name) VALUES (?)
add_employee(name) ==
    IF violates_unique(employees, name)
    THEN /\ UNCHANGED <<tables, now>>
         /\ last' = [op |-> "add_employee", arg |-> name, raised |-> "IntegrityError"]
    ELSE /\ employees' = employees \cup {[id |-> next_id("employees"), name |-> name]}
         /\ sqlite_sequence' = [sqlite_sequence EXCEPT !.employees = next_id("employees")]
         /\ UNCHANGED <<projects, project_status, now>>
         /\ last' = [op |-> "add_employee", arg |-> name, raised |-> "none"]

\* Variant: the employee's logs are deleted with the employee.
delete_employee_cascade(emp_id) ==
    /\ employees' = {e \in employees : e.id # emp_id}
    /\ project_status' =
          {r \in project_status :
              r.employee \notin {e.name : e \in {x \in employees : x.id = emp_id}}}
    /\ UNCHANGED <<projects, sqlite_sequence, now>>
    /\ last' = [op |-> "delete_employee", arg |-> emp_id, raised |-> "none"]

\* Variant: DELETE ... WHERE id <> ?
delete_employee_others(emp_id) ==
    /\ employees' = {e \in employees : e.id = emp_id}
    /\ UNCHANGED <<projects, project_status, sqlite_sequence, now>>
    /\ last' = [op |-> "delete_employee", arg |-> emp_id, raised |-> "none"]

\* DELETE FROM employees WHERE id = ?
delete_employee(emp_id) ==
    /\ employees' = {e \in employees : e.id # emp_id}
    /\ UNCHANGED <<projects, project_status, sqlite_sequence, now>>
    /\ last' = [op |-> "delete_employee", arg |-> emp_id, raised |-> "none"]

\* Position of an employee name in ascending text order.
NameRank(name) == CHOOSE i \in 1..Len(EmployeeOrder) : EmployeeOrder[i] = name

\* ORDER BY name ASC
RECURSIVE OrderByName(_)
OrderByName(rows) ==
    IF rows = {} THEN <<>>
    ELSE LET first == CHOOSE a \in rows :
                        \A b \in rows \ {a} : NameRank(a.name) < NameRank(b.name)
         IN  <<first>> \o OrderByName(rows \ {first})

\* SELECT id, name FROM employees ORDER BY name ASC
fetch_employees == OrderByName(employees)

\* ORDER BY commit_time ASC: text order; rows of equal commit_time in rowid order.
CommitBefore(a, b) ==
    \/ TextLess(a.commit_time, b.commit_time)
    \/ (a.commit_time = b.commit_time /\ a.id < b.id)

RECURSIVE OrderByCommitTime(_)
OrderByCommitTime(rows) ==
    IF rows = {} THEN <<>>
    ELSE LET first == CHOOSE a \in rows : \A b \in rows \ {a} : CommitBefore(a, b)
         IN  <<first>> \o OrderByCommitTime(rows \ {first})

\* project_status JOIN projects ON project_status.project_id = projects.id
JoinProjects ==
    {[id |-> x[1].id,
      employee |-> x[1].employee,
      project_name |-> x[2].name,
      status |-> x[1].status,
      commit_time |-> x[1].commit_time,
      projected_end_date |-> x[1].projected_end_date] :
     x \in {y \in project_status \X projects : y[1].project_id = y[2].id}}

\* SELECT project_status.id, employee, projects.name, status, commit_time,
\*   projected_end_date FROM project_status JOIN projects ... ORDER BY commit_time ASC
fetch_all_logs == OrderByCommitTime(JoinProjects)

\* The wall clock has advanced to reading t when the next operation runs.
tick(t) ==
    /\ t > now
    /\ now' = t
    /\ UNCHANGED tables
    /\ last' = [op |-> "tick", arg |-> t, raised |-> "none"]

\* Variant: the employee selection is not looked at.
submit_log_accepts_any_employee(emp, project_name) ==
    /\ project_name # ""
    /\ \E p \in fetch_not_done_projects : p.name = project_name

\* submit_log, lines 347-348: the selected project is among the not-done projects,
\* and the employee and project selections are non-empty.
submit_log_accepts(emp, project_name) ==
    /\ emp # ""
    /\ project_name # ""
    /\ \E p \in fetch_not_done_projects : p.name = project_name

\* ------------------------------------------------------------ aggregation
\* min() / max() of a non-empty set of integers
Min(S) == CHOOSE x \in S : \A y \in S : x <= y
Max(S) == CHOOSE x \in S : \A y \in S : x >= y
Range(seq) == {seq[i] : i \in 1..Len(seq)}

\* key = (log["employee"], log["project_name"])
group_key(log) == <<log.employee, log.project_name>>

\* The keys of project_groups in dict order: the order of their first appearance.
RECURSIVE group_keys(_)
group_keys(logs) ==
    IF logs = <<>> THEN <<>>
    ELSE LET front == group_keys(SubSeq(logs, 1, Len(logs) - 1))
             key == group_key(logs[Len(logs)])
         IN  IF key \in Range(front) THEN front ELSE Append(front, key)

\* project_groups[key]: the logs of the key, in the order of logs.
group_records(logs, key) == SelectSeq(logs, LAMBDA log : group_key(log) = key)

\* Variant: every record of the group counts as done.
done_records_all(records) == records

\* done_records = [r for r in records if r["status"] == "Done"]
done_records(records) == SelectSeq(records, LAMBDA r : r.status = "Done")

\* start = min(fromisoformat(r["commit_time"]) for r in records)
start_of(records) == Min({fromisoformat(r.commit_time) : r \in Range(records)})

\* finish = max(fromisoformat(r["commit_time"]) for r in done_records)
finish_of(records) == Max({fromisoformat(r.commit_time) : r \in Range(done_records(records))})

\* Variant: the subtraction reversed.
actual_duration_reversed(records) == start_of(records) - finish_of(records)

\* actual_duration = (finish - start).total_seconds() / 3600.0
actual_duration(records) == finish_of(records) - start_of(records)

\* Variant: the projection of the group's latest record.
projected_date_latest(records) == date_fromisoformat(records[Len(records)].projected_end_date)

\* projected_date = date.fromisoformat(records[0]["projected_end_date"])
projected_date(records) == date_fromisoformat(records[1].projected_end_date)

\* projected_duration = (combine(projected_date, time.min) - start) in hours
projected_duration(records) == combine_min(projected_date(records)) - start_of(records)

\* f"Employee: {employee}, Project: {project}, Projected: {..:.2f} hrs, Actual: {..:.2f} hrs"
summary_line(key, records) ==
    [text |-> "Employee: {}, Project: {}, Projected: {} hrs, Actual: {} hrs",
     employee |-> key[1],
     project |-> key[2],
     projected |-> projected_duration(records),
     actual |-> actual_duration(records)]

\* The lines of the groups that hold a Done record, in group order.
RECURSIVE lines_of(_, _)
lines_of(logs, keys) ==
    IF keys = <<>> THEN <<>>
    ELSE LET records == group_records(logs, keys[1])
             rest == lines_of(logs, Tail(keys))
         IN  IF done_records(records) # <<>>
             THEN <<summary_line(keys[1], records)>> \o rest
             ELSE rest

summary_lines(logs) == lines_of(logs, group_keys(logs))

NoCompletedLine ==
    [text |-> "No completed projects yet.",
     employee |-> "", project |-> "", projected |-> 0, actual |-> 0]

\* "\n".join(summary_lines) if summary_lines else "No completed projects yet."
compute_summary(logs) ==
    IF summary_lines(logs) # <<>> THEN summary_lines(logs) ELSE <<NoCompletedLine>>

\* ------------------------------------------------------------ scatter series
\* groups of create_time_vs_projected_graph: the keys (employee, project_name) in
\* the order in which the loop over logs first meets them, keys being those met so far.
RECURSIVE scatter_groups(_, _)
scatter_groups(logs, keys) ==
    IF logs = <<>> THEN keys
    ELSE LET key == <<Head(logs).employee, Head(logs).project_name>>
         IN  scatter_groups(Tail(logs),
                            IF key \in Range(keys) THEN keys ELSE Append(keys, key))

\* Variant: the earliest Done commit.
scatter_finish_earliest(done_recs) ==
    Min({fromisoformat(r.commit_time) : r \in Range(done_recs)})

\* finish = max(fromisoformat(str(r["commit_time"])) for r in done_recs)
scatter_finish(done_recs) ==
    Max({fromisoformat(r.commit_time) : r \in Range(done_recs)})

\* The record appended for a group with a Done log (lines 175-189).
scatter_record(key, recs) ==
    LET done_recs == SelectSeq(recs, LAMBDA r : r.status = "Done")
        start == Min({fromisoformat(r.commit_time) : r \in Range(recs)})
        finish == scatter_finish(done_recs)
        projected_dt == combine_min(date_fromisoformat(recs[1].projected_end_date))
    IN  [employee |-> key[1],
         project |-> key[2],
         actual_duration |-> finish - start,
         projected_duration |-> projected_dt - start]

\* records: the loop over groups.items(), a record for each group with a Done log.
RECURSIVE scatter_records(_, _)
scatter_records(logs, keys) ==
    IF keys = <<>> THEN <<>>
    ELSE LET recs == SelectSeq(logs, LAMBDA l : <<l.employee, l.project_name>> = keys[1])
             rest == scatter_records(logs, Tail(keys))
         IN  IF \E r \in Range(recs) : r.status = "Done"
             THEN <<scatter_record(keys[1], recs)>> \o rest
             ELSE rest

\* The records create_time_vs_projected_graph plots.
create_time_vs_projected_graph ==
    scatter_records(fetch_all_logs, scatter_groups(fetch_all_logs, <<>>))

\* ------------------------------------------------------------ logs table
\* The icon decorate_record looks up for a status, named by its code point.
status_icon(status) ==
    CASE status = "Blocked" -> "U+26D4"
      [] status = "At Risk" -> "U+26A0"
      [] status = "Off Track" -> "U+1F6AB"
      [] status = "Not Started" -> "U+23F8"
      [] status = "In Progress" -> "U+1F504"
      [] status = "Canceled" -> "U+274C"
      [] status = "Done" -> "U+2705"
      [] OTHER -> ""

\* record["status"] = f"{icon} {record['status']}"; return record
decorate_record(record) ==
    [record EXCEPT !.status = status_icon(record.status) \o " " \o record.status]

\* update_logs_table, lines 382-385: each fetched log is copied and the copy is
\* decorated; logs is the fetched list after the loop, rows what the labels show.
update_logs_table(logs) ==
    [logs |-> logs,
     rows |-> [i \in 1..Len(logs) |-> decorate_record(logs[i])]]

\* ------------------------------------------------------------ weekly grid
\* dt.to_period("W") then period.start_time.date(): the Monday of the date's week.
commit_week(log) ==
    LET day == fromisoformat(log.commit_time) \div 24 IN day - (day % 7)

\* datetime.date.today()
today == now \div 24

\* Variant: only the first and the last week.
weeks_from_ends(current, end_week) ==
    IF current < end_week THEN <<current, end_week>> ELSE <<current>>

\* week_list: start_week, start_week + 7 days, ... up to end_week; [today] without logs.
RECURSIVE weeks_from(_, _)
weeks_from(current, end_week) ==
    IF current <= end_week
    THEN <<current>> \o weeks_from(current + 7, end_week)
    ELSE <<>>

\* Variant: no column at all without logs.
week_list_unseeded(logs) ==
    IF logs # <<>>
    THEN weeks_from(Min({commit_week(l) : l \in Range(logs)}),
                    Max({commit_week(l) : l \in Range(logs)}))
    ELSE <<>>

week_list(logs) ==
    IF logs # <<>>
    THEN weeks_from(Min({commit_week(l) : l \in Range(logs)}),
                    Max({commit_week(l) : l \in Range(logs)}))
    ELSE <<today>>

\* status_by_emp_week.get((emp, week), [])
status_by_emp_week(logs, emp, week) ==
    LET cell == SelectSeq(logs, LAMBDA l : l.employee = emp /\ commit_week(l) = week)
    IN  [i \in 1..Len(cell) |-> cell[i].status]

\* Variant: the green test made before the red and yellow ones, on any In Progress/Done.
determine_color_green_first(statuses) ==
    IF \E s \in Range(statuses) : s \in {"In Progress", "Done"} THEN "green"
    ELSE IF \E s \in Range(statuses) : s \in {"Blocked", "At Risk"} THEN "red"
    ELSE IF \E s \in Range(statuses) : s = "Off Track" THEN "yellow"
    ELSE "white"

determine_color(statuses) ==
    IF \E s \in Range(statuses) : s \in {"Blocked", "At Risk"} THEN "red"
    ELSE IF \E s \in Range(statuses) : s = "Off Track" THEN "yellow"
    ELSE IF statuses # <<>> /\ \A s \in Range(statuses) : s \in {"In Progress", "Done"}
         THEN "green"
    ELSE "white"

\* color = determine_color(statuses) if statuses else "lightgrey"
cell_color(logs, emp, week) ==
    LET statuses == status_by_emp_week(logs, emp, week)
    IN  IF statuses # <<>> THEN determine_color(statuses) ELSE "lightgrey"

\* The table: the header's week columns, and one row of cell colours per employee.
create_commit_table ==
    LET logs == fetch_all_logs
        emps == [i \in 1..Len(fetch_employees) |-> fetch_employees[i].name]
        weeks == week_list(logs)
    IN  [weeks |-> weeks,
         rows |-> [i \in 1..Len(emps) |->
                     [employee |-> emps[i],
                      colors |-> [w \in 1..Len(weeks) |-> cell_color(logs, emps[i], weeks[w])]]]]

\* ------------------------------------------------------------ specifications
\* The storage accessor's operations on the three tables, called in any order.
Next ==
    \/ init_db /\ UNCHANGED ui
    \/ \E n \in ProjectNames : add_project(n) /\ UNCHANGED ui
    \/ \E n \in EmployeeNames :
          sqlite_sequence.employees < MaxEmployeeRows /\ add_employee(n) /\ UNCHANGED ui
    \/ \E id \in 1..MaxEmployeeRows : delete_employee(id) /\ UNCHANGED ui
    \/ \E p \in projects, s \in {"In Progress", "Done"} :
          /\ sqlite_sequence.project_status < MaxLogs
          /\ add_log("Alice", p.id, s, 7)
          /\ UNCHANGED ui
    \/ \E id \in 1..MaxLogs : delete_log(id) /\ UNCHANGED ui

Spec == Init /\ [][Next]_vars

\* Logging against one project while the clock runs: the input of compute_summary.
SummaryNext ==
    \/ add_project("Site Migration") /\ UNCHANGED ui
    \/ \E e \in EmployeeNames, p \in projects, s \in {"In Progress", "Done"}, d \in Dates :
          /\ sqlite_sequence.project_status < MaxLogs
          /\ add_log(e, p.id, s, d)
          /\ UNCHANGED ui
    \/ \E r \in project_status : delete_log(r.id) /\ UNCHANGED ui
    \/ \E i \in 1..Len(Instants) : tick(Instants[i]) /\ UNCHANGED ui

SpecSummary == Init /\ [][SummaryNext]_vars

\* ------------------------------------------------------------ projects page
\* The user types into the "Project Name" input.
set_new_project_input(s, value) ==
    /\ ui[s].pc = "idle"
    /\ ui' = [ui EXCEPT ![s].new_project_input = value]
    /\ UNCHANGED <<tables, now, last>>

\* submit_new_project, line 356 and its else branch: the click on "Create Project".
submit_new_project(s) ==
    /\ ui[s].pc = "idle"
    /\ IF ui[s].new_project_input # ""
       THEN ui' = [ui EXCEPT ![s].pc = "add_project",
                             ![s].notify = NoNotification,
                             ![s].escaped = "none"]
       ELSE ui' = [ui EXCEPT ![s].notify = [message |-> "Please enter a project name",
                                            color |-> "warning"],
                             ![s].escaped = "none"]
    /\ UNCHANGED <<tables, now, last>>

\* submit_new_project, lines 357-361: the insert, then the input cleared, the
\* notification and the table refreshed; an exception of add_project leaves the
\* handler at once.
submit_new_project_add(s) ==
    /\ ui[s].pc = "add_project"
    /\ add_project(ui[s].new_project_input)
    /\ IF last'.raised # "none"
       THEN ui' = [ui EXCEPT ![s].pc = "idle",
                             ![s].escaped = last'.raised]
       ELSE ui' = [ui EXCEPT ![s].pc = "idle",
                             ![s].new_project_input = "",
                             ![s].notify = [message |-> "Project created successfully",
                                            color |-> "positive"],
                             ![s].project_table = fetch_projects']

\* The projects page open in several sessions.
SessionsNext ==
    \/ \E s \in Sessions, value \in ProjectNames \cup {""} : set_new_project_input(s, value)
    \/ \E s \in Sessions : submit_new_project(s)
    \/ \E s \in Sessions : submit_new_project_add(s)

SpecSessions == Init /\ [][SessionsNext]_vars

\* ------------------------------------------------------------ status updates page
\* The text of the date picker: the ISO date 2024-01-08, or no text once it is cleared.
DateTexts == {date_isoformat(7), <<>>}

\* date.fromisoformat() raises on a value that is not a YYYY-MM-DD text.
date_fromisoformat_raises(text) == Len(text) # 1

\* proj_obj = next((p for p in fetch_not_done_projects() if p["name"] == project_name), None)
proj_obj(project_name) == CHOOSE p \in fetch_not_done_projects : p.name = project_name

\* status_updates_page: the page is built for a session, the project select taking
\* the names of the projects that are not done at that moment.
status_updates_page(s) ==
    /\ ui[s].pc = "idle"
    /\ ui' = [ui EXCEPT ![s].project_options = {p.name : p \in fetch_not_done_projects},
                        ![s].notify = NoNotification]
    /\ UNCHANGED <<tables, now>>
    /\ last' = [op |-> "status_updates_page", arg |-> s, raised |-> "none"]

\* submit_log, lines 338-348 and 352-353: the click on "Submit Log" with the values
\* of the four inputs; the date is parsed, the not-done projects are read and the
\* submission is accepted or refused.
submit_log(s, emp, project_name, stat, text) ==
    /\ ui[s].pc = "idle"
    /\ IF date_fromisoformat_raises(text)
       THEN ui' = [ui EXCEPT ![s].notify = [message |-> "Invalid projected end date",
                                            color |-> "error"]]
       ELSE IF submit_log_accepts(emp, project_name)
            THEN ui' = [ui EXCEPT ![s].pc = "add_log",
                                  ![s].notify = NoNotification,
                                  ![s].log_args = <<emp, proj_obj(project_name).id, stat,
                                                    date_fromisoformat(text)>>]
            ELSE ui' = [ui EXCEPT ![s].notify = [message |-> "Invalid log submission",
                                                 color |-> "warning"]]
    /\ UNCHANGED <<tables, now>>
    /\ last' = [op |-> "submit_log", arg |-> <<s, emp, project_name, stat, text>>,
                raised |-> "none"]

\* submit_log, lines 349-351: the insert, then the page and the project select
\* refreshed from the store.
submit_log_add(s) ==
    /\ ui[s].pc = "add_log"
    /\ add_log(ui[s].log_args[1], ui[s].log_args[2], ui[s].log_args[3], ui[s].log_args[4])
    /\ ui' = [ui EXCEPT ![s].pc = "idle",
                        ![s].log_args = <<>>,
                        ![s].project_options = {p.name : p \in fetch_not_done_projects'}]

\* The status updates page open in several sessions; a submission is started only
\* while the rows it and the submissions under way insert stay within MaxLogs.
StatusNext ==
    \/ \E n \in ProjectNames : add_project(n) /\ UNCHANGED ui
    \/ \E s \in Sessions : status_updates_page(s)
    \/ \E s \in Sessions, emp \in {"", "Alice"}, stat \in {"In Progress", "Done"},
          text \in DateTexts :
          \E project_name \in ui[s].project_options \cup {""} :
             /\ sqlite_sequence.project_status
                   + Cardinality({x \in Sessions : ui[x].pc = "add_log"}) < MaxLogs
             /\ submit_log(s, emp, project_name, stat, text)
    \/ \E s \in Sessions : submit_log_add(s)

SpecStatus == Init /\ [][StatusNext]_vars

\* The log entries the weekly grid is fed with: Alice logging any status, and Bob,
\* who is not a listed employee, logging Blocked.
GridLogInputs == ({"Alice"} \X Statuses) \cup {<<"Bob", "Blocked">>}

\* Logging over two weeks with one listed employee: the input of create_commit_table.
GridNext ==
    \/ add_project("Site Migration") /\ UNCHANGED ui
    \/ sqlite_sequence.employees < MaxEmployeeRows /\ add_employee("Alice") /\ UNCHANGED ui
    \/ \E in \in GridLogInputs, p \in projects :
          /\ sqlite_sequence.project_status < MaxLogs
          /\ add_log(in[1], p.id, in[2], 7)
          /\ UNCHANGED ui
    \/ tick(Instants[Len(Instants)]) /\ UNCHANGED ui

SpecGrid == Init /\ [][GridNext]_vars

\* The wall-clock readings after start-up at which logs are written over three
\* weeks: 2024-01-10T09:00 (a Wednesday) and 2024-01-18T09:00 (a Thursday).
WeekInstants == <<Instants[3], 417>>

\* The log entries written over the three weeks: Alice completing or blocked, Bob
\* completing.
WeekLogInputs == {<<"Alice", "Blocked">>, <<"Alice", "Done">>, <<"Bob", "Done">>}

\* Employees added and deleted while both log over three weeks: the input of
\* create_commit_table with weeks nobody logged in and with unlisted employees.
WeeksNext ==
    \/ add_project("Site Migration") /\ UNCHANGED ui
    \/ \E n \in EmployeeNames :
          sqlite_sequence.employees < MaxEmployeeRows /\ add_employee(n) /\ UNCHANGED ui
    \/ \E e \in employees : delete_employee(e.id) /\ UNCHANGED ui
    \/ \E in \in WeekLogInputs, p \in projects :
          /\ sqlite_sequence.project_status < MaxLogs
          /\ add_log(in[1], p.id, in[2], 7)
          /\ UNCHANGED ui
    \/ \E i \in 1..Len(WeekInstants) : tick(WeekInstants[i]) /\ UNCHANGED ui

SpecWeeks == Init /\ [][WeeksNext]_vars

\* ------------------------------------------------------------ claims
LineText == "Employee: {}, Project: {}, Projected: {} hrs, Actual: {} hrs"

\* The stored rows of an (employee, project name) group, and their Done rows.
GroupRows(e, p) ==
    {r \in project_status :
        r.employee = e /\ \E q \in projects : q.id = r.project_id /\ q.name = p}
DoneRows(e, p) == {r \in GroupRows(e, p) : r.status = "Done"}
\* The commit time of a stored row, in hours.
CommitHour(r) == r.commit_time[1] * 24 + r.commit_time[2]
\* The positions of the summary lines written for group (e, p).
LinesFor(out, e, p) ==
    {i \in 1..Len(out) : out[i].text = LineText /\ out[i].employee = e /\ out[i].project = p}

\* C1: compute_summary emits a line for an (employee, project) group if and only
\* if the group holds at least one Done entry: exactly one line for such a group,
\* none for any other.
C1_LineIffDone ==
    LET out == compute_summary(fetch_all_logs)
    IN  /\ \A e \in EmployeeNames, p \in ProjectNames :
              Cardinality(LinesFor(out, e, p)) = IF DoneRows(e, p) # {} THEN 1 ELSE 0
        /\ \A i \in 1..Len(out) :
              out[i].text = LineText => DoneRows(out[i].employee, out[i].project) # {}

\* A group with a Done entry and a group without one are both stored.
C1_Witness ==
    /\ \E e \in EmployeeNames, p \in ProjectNames :
          /\ DoneRows(e, p) # {}
          /\ LinesFor(compute_summary(fetch_all_logs), e, p) # {}
    /\ \E e \in EmployeeNames, p \in ProjectNames :
          /\ GroupRows(e, p) # {}
          /\ DoneRows(e, p) = {}
          /\ LinesFor(compute_summary(fetch_all_logs), e, p) = {}

\* C2: for a group with a Done entry, the line's actual duration is the latest Done
\* commit time minus the earliest commit time of the group, and its projected
\* duration is midnight of the projected end date of an earliest entry minus that
\* earliest commit time, whatever later entries project; Alice's logs at
\* 2024-01-01T09:00, 2024-01-03T09:00 and Done at 2024-01-10T09:00 with projected end
\* date 2024-01-08 give actual 216 and projected 159 hours.
C2_Durations ==
    LET out == compute_summary(fetch_all_logs)
    IN  \A e \in EmployeeNames, p \in ProjectNames :
          DoneRows(e, p) # {} =>
            LET start == Min({CommitHour(r) : r \in GroupRows(e, p)})
                finish == Max({CommitHour(r) : r \in DoneRows(e, p)})
                firsts == {r \in GroupRows(e, p) : CommitHour(r) = start}
            IN  \A i \in LinesFor(out, e, p) :
                  /\ out[i].actual = finish - start
                  /\ \E f \in firsts :
                        out[i].projected = f.projected_end_date[1] * 24 - start
                  /\ ({CommitHour(r) : r \in GroupRows(e, p)} = {9, 57, 225}
                        /\ {CommitHour(r) : r \in DoneRows(e, p)} = {225}
                        /\ \A f \in firsts : f.projected_end_date = <<7>>)
                     => (out[i].actual = 216 /\ out[i].projected = 159)

\* Alice's three logs on Site Migration, the later ones projecting 2024-01-15.
C2_Witness ==
    LET g == GroupRows("Alice", "Site Migration")
        out == compute_summary(fetch_all_logs)
    IN  /\ Cardinality(g) = 3
        /\ {CommitHour(r) : r \in g} = {9, 57, 225}
        /\ {CommitHour(r) : r \in DoneRows("Alice", "Site Migration")} = {225}
        /\ \A r \in g : r.projected_end_date = IF CommitHour(r) = 9 THEN <<7>> ELSE <<14>>
        /\ \E i \in LinesFor(out, "Alice", "Site Migration") :
              out[i].actual = 216 /\ out[i].projected = 159

\* C3: every line compute_summary reports has finish >= start, so an actual
\* duration >= 0, after any sequence of add_log and delete_log.
C3_ActualNonNegative ==
    LET logs == fetch_all_logs
        out == compute_summary(logs)
    IN  /\ \A i \in 1..Len(out) : out[i].actual >= 0
        /\ \A k \in Range(group_keys(logs)) :
              done_records(group_records(logs, k)) # <<>> =>
                finish_of(group_records(logs, k)) >= start_of(group_records(logs, k))

\* A log was just deleted and a group whose Done entry is not its last is reported.
C3_Witness ==
    /\ last.op = "delete_log"
    /\ \E e \in EmployeeNames, p \in ProjectNames :
          /\ LinesFor(compute_summary(fetch_all_logs), e, p) # {}
          /\ \E r \in GroupRows(e, p), d \in DoneRows(e, p) : CommitHour(r) > CommitHour(d)

\* No two rows of a table share a name.
NamesUnique(table) == \A a, b \in table : a.name = b.name => a = b

\* C4: add_project or add_employee with a name the table holds raises the
\* uniqueness error and changes no table, the row of that name staying there
\* exactly once; so no two projects and no two employees ever share a name.
C4_UniqueNames ==
    /\ [](NamesUnique(projects) /\ NamesUnique(employees))
    /\ [][/\ (last'.op = "add_project" /\ \E q \in projects : q.name = last'.arg)
               => /\ last'.raised = "IntegrityError"
                  /\ UNCHANGED tables
                  /\ Cardinality({q \in projects' : q.name = last'.arg}) = 1
          /\ (last'.op = "add_employee" /\ \E q \in employees : q.name = last'.arg)
               => /\ last'.raised = "IntegrityError"
                  /\ UNCHANGED tables
                  /\ Cardinality({q \in employees' : q.name = last'.arg}) = 1]_vars

\* A second add_project of a stored name has just been refused, with both names stored.
C4_Witness ==
    /\ last.op = "add_project"
    /\ last.raised = "IntegrityError"
    /\ Cardinality({q \in projects : q.name = last.arg}) = 1
    /\ Cardinality(projects) = 2

\* C6: fetch_not_done_projects returns exactly the projects no stored log of which
\* has status Done, computed from the store as it is; when delete_log removes the
\* only Done entry of a project, the project is returned again and submit_log
\* accepts it again.
C6_NotDoneRecomputed ==
    /\ [](fetch_not_done_projects =
            {p \in projects :
                \A r \in project_status : r.project_id = p.id => r.status # "Done"})
    /\ [][\A p \in projects :
            (/\ last'.op = "delete_log"
             /\ {r.id : r \in {x \in project_status :
                                 x.project_id = p.id /\ x.status = "Done"}} = {last'.arg})
            => /\ p \in fetch_not_done_projects'
               /\ submit_log_accepts("Alice", p.name)']_vars

\* After a delete_log of a stored row, a project that still has logs is not done
\* while the other project is done.
C6_Witness ==
    /\ last.op = "delete_log"
    /\ last.arg <= sqlite_sequence.project_status
    /\ \A r \in project_status : r.id # last.arg
    /\ \E p \in fetch_not_done_projects : \E r \in project_status : r.project_id = p.id
    /\ \E p \in projects : p \notin fetch_not_done_projects

\* C7: delete_log of an id project_status does not hold raises nothing and leaves
\* fetch_all_logs and every table as they were; so does delete_employee of an id
\* employees does not hold.
C7_DeleteAbsentNoOp ==
    [][/\ (last'.op = "delete_log" /\ \A r \in project_status : r.id # last'.arg)
            => /\ last'.raised = "none"
               /\ fetch_all_logs' = fetch_all_logs
               /\ UNCHANGED tables
       /\ (last'.op = "delete_employee" /\ \A e \in employees : e.id # last'.arg)
            => /\ last'.raised = "none"
               /\ fetch_employees' = fetch_employees
               /\ UNCHANGED tables]_vars

\* delete_log has just run with an id never assigned, on a table that holds rows.
C7_Witness ==
    /\ last.op = "delete_log"
    /\ last.arg > sqlite_sequence.project_status
    /\ last.raised = "none"
    /\ fetch_all_logs # <<>>
    /\ employees # {}

\* C8: after a successful add_project(n), fetch_projects holds a row named n; after
\* delete_employee of the id assigned to employee n, fetch_employees holds no row
\* named n.
C8_RoundTrip ==
    /\ []((last.op = "add_project" /\ last.raised = "none")
            => \E row \in fetch_projects : row.name = last.arg)
    /\ [][\A e \in employees :
            (last'.op = "delete_employee" /\ last'.arg = e.id)
            => \A i \in 1..Len(fetch_employees') : fetch_employees'[i].name # e.name]_vars

\* An employee id that was assigned has just been deleted; the other employee stays.
C8_Witness ==
    /\ last.op = "delete_employee"
    /\ last.arg <= sqlite_sequence.employees
    /\ \A e \in employees : e.id # last.arg
    /\ employees # {}
    /\ projects # {}

\* The Monday of the week a stored row was committed in.
RowWeek(r) == r.commit_time[1] - (r.commit_time[1] % 7)
\* The statuses an employee logged in the week starting at week, on stored projects.
CellStatuses(emp, week) ==
    {r.status : r \in {x \in project_status :
                         /\ x.employee = emp
                         /\ RowWeek(x) = week
                         /\ \E q \in projects : q.id = x.project_id}}
\* The colour the precedence rule gives a set of statuses.
ColourByPrecedence(S) ==
    IF S \cap {"Blocked", "At Risk"} # {} THEN "red"
    ELSE IF "Off Track" \in S THEN "yellow"
    ELSE IF S # {} /\ S \subseteq {"In Progress", "Done"} THEN "green"
    ELSE IF S # {} THEN "white"
    ELSE "lightgrey"

\* C9: each cell of the weekly grid is coloured by first match: any Blocked or
\* At Risk red, else any Off Track yellow, else non-empty and all In Progress or
\* Done green, else non-empty white, else light-grey; a cell holding Blocked and
\* Done is red.
C9_ColourPrecedence ==
    LET t == create_commit_table
    IN  \A i \in 1..Len(t.rows), w \in 1..Len(t.weeks) :
          LET S == CellStatuses(t.rows[i].employee, t.weeks[w])
          IN  /\ t.rows[i].colors[w] = ColourByPrecedence(S)
              /\ {"Blocked", "Done"} \subseteq S => t.rows[i].colors[w] = "red"

\* Alice logged exactly Blocked and Done in one week, and her cell is red.
C9_Witness ==
    LET t == create_commit_table
    IN  \E i \in 1..Len(t.rows), w \in 1..Len(t.weeks) :
          /\ CellStatuses(t.rows[i].employee, t.weeks[w]) = {"Blocked", "Done"}
          /\ t.rows[i].colors[w] = "red"

\* C10: without log entries compute_summary is exactly "No completed projects
\* yet."; without log entries and employees the weekly grid has exactly one
\* column, a date of the week containing today, and no rows.
C10_EmptyInput ==
    /\ fetch_all_logs = <<>> =>
          /\ Len(compute_summary(fetch_all_logs)) = 1
          /\ compute_summary(fetch_all_logs)[1].text = "No completed projects yet."
    /\ (fetch_all_logs = <<>> /\ employees = {}) =>
          LET t == create_commit_table
          IN  /\ Len(t.weeks) = 1
              /\ t.weeks[1] - (t.weeks[1] % 7) = (now \div 24) - ((now \div 24) % 7)
              /\ t.rows = <<>>

\* The store is empty on a Wednesday: the summary and the grid are the empty ones.
C10_Witness ==
    /\ last.op = "tick"
    /\ (now \div 24) % 7 = 2
    /\ fetch_all_logs = <<>>
    /\ employees = {}
    /\ compute_summary(fetch_all_logs) = <<NoCompletedLine>>
    /\ Len(create_commit_table.weeks) = 1

\* The projects no stored log of which has status Done.
NotDoneNames ==
    {p.name : p \in {q \in projects :
                       \A r \in project_status : r.project_id = q.id => r.status # "Done"}}

\* C11: submit_log goes on to insert a log entry only when the projected end date
\* parses as a date, the employee selection is non-empty and the selected name is
\* that of a stored project which is not done when the handler reads the store; in
\* every other case it notifies, inserts nothing and leaves the three tables as
\* they were; the row it inserts carries the submitted values, and every stored
\* log's project_id is the id of a stored project.
C11_SubmitValidated ==
    /\ [](\A r \in project_status : \E p \in projects : p.id = r.project_id)
    /\ [][/\ last'.op = "submit_log" =>
               LET s == last'.arg[1]
                   emp == last'.arg[2]
                   project_name == last'.arg[3]
                   text == last'.arg[5]
                   valid == /\ Len(text) = 1
                            /\ emp # ""
                            /\ project_name \in NotDoneNames
               IN  /\ UNCHANGED tables
                   /\ (ui'[s].pc = "add_log") = valid
                   /\ valid =>
                         /\ ui'[s].log_args[1] = emp
                         /\ \E p \in projects :
                               p.name = project_name /\ p.id = ui'[s].log_args[2]
                         /\ ui'[s].log_args[3] = last'.arg[4]
                         /\ <<ui'[s].log_args[4]>> = text
                   /\ ~valid =>
                         /\ ui'[s].pc = "idle"
                         /\ ui'[s].notify.message =
                               IF Len(text) # 1 THEN "Invalid projected end date"
                                                ELSE "Invalid log submission"
          /\ project_status' # project_status =>
               /\ last'.op = "add_log"
               /\ UNCHANGED <<projects, employees>>
               /\ \E s \in Sessions, row \in project_status' :
                     /\ ui[s].pc = "add_log"
                     /\ ui'[s].pc = "idle"
                     /\ project_status' = project_status \cup {row}
                     /\ row \notin project_status
                     /\ <<row.employee, row.project_id, row.status, row.projected_end_date[1]>>
                           = ui[s].log_args
                     /\ \E p \in projects : p.id = row.project_id]_vars

\* A submission naming a project that has meanwhile been done has just been
\* refused, after one with a cleared date and accepted ones were handled.
C11_Witness ==
    /\ last.op = "submit_log"
    /\ last.arg[2] = "Alice"
    /\ last.arg[3] \in {p.name : p \in projects} \ NotDoneNames
    /\ Len(last.arg[5]) = 1
    /\ ui[last.arg[1]].notify.message = "Invalid log submission"
    /\ \E s \in Sessions : ui[s].notify.message = "Invalid projected end date"
    /\ project_status # {}

\* C12: a status-log entry does not change between its creation and its deletion.
\* Over every step of add_log, delete_log, add_project, add_employee,
\* delete_employee and init_db a log id stored before and after has the same
\* employee, project_id, status, commit_time and projected_end_date, and an id is
\* never given to a second row (a new row's id is above every id given before), so
\* a log id present in any two states names the same row in both.  The logs table
\* shows each status behind its icon while the fetched logs, and the summary
\* computed from them, keep the stored status.
C12_LogImmutable ==
    /\ [](\A a, b \in project_status : a.id = b.id => a = b)
    /\ [](\A r \in project_status : r.id <= sqlite_sequence.project_status)
    /\ [][/\ \A r \in project_status, q \in project_status' : r.id = q.id => r = q
          /\ \A q \in project_status' \ project_status :
                q.id > sqlite_sequence.project_status
          /\ sqlite_sequence'.project_status >= sqlite_sequence.project_status]_vars
    /\ [](LET logs == fetch_all_logs
              shown == update_logs_table(logs)
          IN  /\ shown.logs = logs
              /\ compute_summary(shown.logs) = compute_summary(logs)
              /\ \A i \in 1..Len(logs) :
                    /\ shown.rows[i].status # logs[i].status
                    /\ shown.rows[i].status = status_icon(logs[i].status) \o " " \o logs[i].status
                    /\ \E r \in project_status :
                          r.id = logs[i].id /\ r.status = logs[i].status)

\* A log was deleted and another inserted after it while an older log stayed, and
\* the logs table shows a Done log behind its icon.
C12_Witness ==
    /\ last.op = "add_log"
    /\ Cardinality(project_status) < sqlite_sequence.project_status
    /\ \E r \in project_status : r.id < last.arg
    /\ \E i \in 1..Len(fetch_all_logs) :
          /\ fetch_all_logs[i].status = "Done"
          /\ update_logs_table(fetch_all_logs).rows[i].status = "U+2705 Done"

\* C13: for the stored logs, create_time_vs_projected_graph plots exactly one
\* record for each group compute_summary reports, in the same order, with the
\* employee, the project and the actual and projected durations of that line.
C13_ScatterMatchesSummary ==
    LET out == compute_summary(fetch_all_logs)
        reported == SelectSeq(out, LAMBDA line : line.text = LineText)
        records == create_time_vs_projected_graph
    IN  /\ Len(records) = Len(reported)
        /\ \A i \in 1..Len(records) :
              /\ records[i].employee = reported[i].employee
              /\ records[i].project = reported[i].project
              /\ records[i].actual_duration = reported[i].actual
              /\ records[i].projected_duration = reported[i].projected

\* Two groups are plotted, Bob's before Alice's, with different durations, one of
\* them holding two Done logs of different commit times.
C13_Witness ==
    LET records == create_time_vs_projected_graph
    IN  /\ Len(records) = 2
        /\ records[1].employee = "Bob"
        /\ records[2].employee = "Alice"
        /\ records[1].actual_duration # records[2].actual_duration
        /\ records[1].projected_duration # records[2].projected_duration
        /\ \E a, b \in project_status :
              /\ a.employee = b.employee
              /\ a.status = "Done"
              /\ b.status = "Done"
              /\ a.commit_time # b.commit_time

\* The stored rows fetch_all_logs returns: those of a stored project.
JoinedRows == {r \in project_status : \E q \in projects : q.id = r.project_id}

\* C14: when a log exists, the columns of the weekly grid are the Mondays from the
\* week of the earliest commit to the week of the latest commit, each 7 days after
\* the one before it, so that every log of a listed employee lies in exactly one
\* column, and a week between them in which an employee logged nothing is there
\* with a light-grey cell.
C14_ContinuousWeeks ==
    fetch_all_logs # <<>> =>
      LET t == create_commit_table
          W == t.weeks
          first == Min({RowWeek(r) : r \in JoinedRows})
          final == Max({RowWeek(r) : r \in JoinedRows})
      IN  /\ Len(W) = ((final - first) \div 7) + 1
          /\ W[1] = first
          /\ W[Len(W)] = final
          /\ \A w \in 1..Len(W) : W[w] % 7 = 0
          /\ \A w \in 1..(Len(W) - 1) : W[w + 1] = W[w] + 7
          /\ \A r \in JoinedRows :
                Cardinality({w \in 1..Len(W) :
                               W[w] <= r.commit_time[1] /\ r.commit_time[1] < W[w] + 7}) = 1
          /\ \A i \in 1..Len(t.rows), w \in 1..Len(W) :
                (t.rows[i].colors[w] = "lightgrey")
                  = (CellStatuses(t.rows[i].employee, W[w]) = {})

\* Alice, who is listed, logged in the weeks of 2024-01-01 and 2024-01-15 only: the
\* grid has three columns and her cell of the week of 2024-01-08 is light-grey.
C14_Witness ==
    LET t == create_commit_table
    IN  /\ t.weeks = <<0, 7, 14>>
        /\ \E i \in 1..Len(t.rows) :
              /\ t.rows[i].employee = "Alice"
              /\ t.rows[i].colors[1] # "lightgrey"
              /\ t.rows[i].colors[2] = "lightgrey"
              /\ t.rows[i].colors[3] # "lightgrey"
        /\ \A r \in project_status : RowWeek(r) # 7

\* C16: delete_employee changes the employees table only: a step of it leaves the
\* other tables, the stored logs among them, as they were and no employee of the
\* deleted name listed.  In the state it leaves, the logs of every employee who is not
\* listed are in fetch_all_logs and the groups they complete are in
\* compute_summary, while the weekly grid, which has one row for each employee
\* still listed, has no row, hence no cell, for such an employee.
C16_DeleteEmployeeFrame ==
    /\ [][last'.op = "delete_employee" =>
            /\ UNCHANGED <<projects, project_status, sqlite_sequence>>
            /\ employees' = {e \in employees : e.id # last'.arg}
            /\ \A e \in employees :
                  e.id = last'.arg => \A x \in employees' : x.name # e.name]_vars
    /\ [](last.op = "delete_employee" =>
            LET grid == create_commit_table
                out == compute_summary(fetch_all_logs)
                listed == {e.name : e \in employees}
            IN  /\ Len(grid.rows) = Cardinality(employees)
                /\ {grid.rows[i].employee : i \in 1..Len(grid.rows)} = listed
                /\ \A n \in EmployeeNames \ listed :
                      /\ \A i \in 1..Len(grid.rows) : grid.rows[i].employee # n
                      /\ \A r \in JoinedRows :
                            r.employee = n =>
                              \E i \in 1..Len(fetch_all_logs) : fetch_all_logs[i].id = r.id
                      /\ \A p \in ProjectNames :
                            DoneRows(n, p) # {} => LinesFor(out, n, p) # {})

\* Alice has just been deleted while Bob stays listed: her Done log is fetched and
\* reported, its week is a column of the grid, and the grid has Bob's row only.
C16_Witness ==
    LET grid == create_commit_table
    IN  /\ last.op = "delete_employee"
        /\ {e.name : e \in employees} = {"Bob"}
        /\ \A e \in employees : e.id # last.arg
        /\ last.arg <= sqlite_sequence.employees
        /\ \E r \in DoneRows("Alice", "Site Migration") :
              /\ \E i \in 1..Len(fetch_all_logs) : fetch_all_logs[i].id = r.id
              /\ \E w \in 1..Len(grid.weeks) : grid.weeks[w] = RowWeek(r)
        /\ LinesFor(compute_summary(fetch_all_logs), "Alice", "Site Migration") # {}
        /\ Len(grid.rows) = 1
        /\ grid.rows[1].employee = "Bob"

\* C15: however the submit_log actions of several sessions interleave, each
\* reading the not-done projects and inserting its log as two storage operations,
\* no project has more than one Done log and no log is inserted for a project
\* that has a Done log: every other log of a project with a Done log was inserted
\* before that Done log.
C15_NoLogAfterDone ==
    \A d, r \in project_status :
       (d.status = "Done" /\ r.project_id = d.project_id /\ r # d) => r.id < d.id

\* C5: when two sessions run the create-project action with the same name, one
\* insert succeeds and the store holds one project of that name; the session whose
\* insert fails on the uniqueness constraint is shown an error and is not told
\* that the project was created.
C5_FailureSurfaced ==
    /\ NamesUnique(projects)
    /\ \A s \in Sessions :
          ui[s].escaped = "IntegrityError" =>
            /\ ui[s].notify.message # "Project created successfully"
            /\ ui[s].notify.color \in {"error", "negative", "warning"}

====
